---- MODULE Spec2Model ----
(***************************************************************************)
(* Model of the FLUX API client (src/flux_trainer/api.py): the generic     *)
(* request handling of FluxAPI._make_request, the operations built on it   *)
(* and the bounded polling loop of FluxAPI.generate_image.                 *)
(*                                                                         *)
(* The remote service is the environment: every HTTP exchange is a reply   *)
(* chosen from a finite set of reply shapes (transport failure, 2xx or     *)
(* non-2xx status, empty / undecodable / JSON body).                       *)
(***************************************************************************)
EXTENDS Integers, Sequences, FiniteSets, TLC

(***************************************************************************)
(* Decoded JSON values.  Every value is a record [t, s, f]: t is the       *)
(* Python type after json decoding, s the text of a str (or the digits of  *)
(* a number), f the items of a dict (keyed by field name) or of a list     *)
(* (keyed by position).                                                    *)
(***************************************************************************)
NoFields == [k \in {} |-> ""]

JNull == [t |-> "null", s |-> "", f |-> NoFields]

JStr(s) == [t |-> "str", s |-> s, f |-> NoFields]

JNum(digits) == [t |-> "num", s |-> digits, f |-> NoFields]

JObj(f) == [t |-> "obj", s |-> "", f |-> f]

JList(f) == [t |-> "list", s |-> "", f |-> f]

\* JSON true / false
JBool(name) == [t |-> "bool", s |-> name, f |-> NoFields]

EmptyObj == JObj(NoFields)

\* isinstance(v, dict)
IsDict(v) == v.t = "obj"

\* isinstance(v, str)
IsStr(v) == v.t = "str"

\* Only a dict has .get; on any other decoded value the attribute lookup
\* raises AttributeError.
HasGet(v) == IsDict(v)

\* d.get(k, default) on a dict d
Get(d, k, default) == IF k \in DOMAIN d.f THEN d.f[k] ELSE default

\* d.get(k): the default is None
GetOrNone(d, k) == Get(d, k, JNull)

\* Python truth value of a decoded value (`if not v`, `a or b`)
Truthy(v) ==
    CASE v.t = "null" -> FALSE
      [] v.t = "str"  -> v.s # ""
      [] v.t = "num"  -> v.s # "0"
      [] v.t = "bool" -> v.s = "true"
      [] v.t = "obj"  -> DOMAIN v.f # {}
      [] v.t = "list" -> DOMAIN v.f # {}

\* a or b
PyOr(a, b) == IF Truthy(a) THEN a ELSE b

\* The strs of the model that have `k` as a substring.
HasSubstring(s, k) == k = "sample" /\ s \in {"sample", "https://cdn/sample.png"}

\* `k in v` is defined for containers only: key membership on a dict,
\* element membership on a list, substring on a str.
SupportsIn(v) == v.t \in {"obj", "list", "str"}

\* k in v   (for SupportsIn(v); None, numbers and booleans raise TypeError)
PyIn(k, v) ==
    CASE v.t = "obj"  -> k \in DOMAIN v.f
      [] v.t = "list" -> \E i \in DOMAIN v.f : v.f[i] = JStr(k)
      [] v.t = "str"  -> HasSubstring(v.s, k)

\* str(v) as an f-string renders it
PyStr(v) ==
    CASE v.t = "str"  -> v.s
      [] v.t = "null" -> "None"
      [] v.t = "num"  -> v.s
      [] v.t = "obj"  -> "{...}"
      [] v.t = "list" -> "[...]"

(***************************************************************************)
(* HTTP exchanges.  net = "error": requests raised a RequestException that *)
(* carries no response (connection error, DNS failure, timeout).           *)
(* net = "response": a response arrived; ok is response.ok, text is        *)
(* "empty" (response.text == ""), "garbage" (not JSON) or "json", and json *)
(* is then the decoded body.                                               *)
(***************************************************************************)
NoResponse == [net |-> "none", ok |-> FALSE, text |-> "empty", json |-> JNull]

TransportFailure == [net |-> "error", ok |-> FALSE, text |-> "empty", json |-> JNull]

Http(ok, text, json) == [net |-> "response", ok |-> ok, text |-> text, json |-> json]

\* requests raised a RequestException that carries a response (e.response),
\* as TooManyRedirects does
RedirectLoop == [net |-> "error", ok |-> FALSE, text |-> "garbage", json |-> JNull]

Ok(json) == Http(TRUE, "json", json)

\* Exceptions: the Python type, the message (named by its fixed prefix),
\* the interpolated detail and FluxAPIError.response.
NoExc == [type |-> "none", msg |-> "", detail |-> "", response |-> NoResponse]

FluxAPIError(msg, detail, response) ==
    [type |-> "FluxAPIError", msg |-> msg, detail |-> detail, response |-> response]

AttributeError == [type |-> "AttributeError", msg |-> "has no attribute 'get'",
                   detail |-> "", response |-> NoResponse]

TypeError == [type |-> "TypeError", msg |-> "argument is not iterable",
              detail |-> "", response |-> NoResponse]

\* The result of running a piece of code: it returned a value or raised.
Returned(v) == [kind |-> "return", value |-> v, exc |-> NoExc]

Raised(e) == [kind |-> "raise", value |-> JNull, exc |-> e]

NoOutcome == [kind |-> "none", value |-> JNull, exc |-> NoExc]

\* response.json() if response.text else {}
DecodeBodyUnguarded(reply) == reply.json

DecodeBody(reply) == IF reply.text = "empty" THEN EmptyObj ELSE reply.json

\* response_json.get('error', {}).get('message', response.text)
\* (only reached for `not response.ok`)
ErrorMessage(reply) ==
    LET body == DecodeBody(reply) IN
    IF ~HasGet(body) THEN Raised(AttributeError)
    ELSE LET err == Get(body, "error", EmptyObj) IN
         IF ~HasGet(err) THEN Raised(AttributeError)
         ELSE IF "message" \in DOMAIN err.f
              THEN Returned(err.f["message"])
              ELSE Returned(JStr("response.text"))

\* FluxAPI._make_request
MakeRequest(reply) ==
    IF reply.net = "error"
    THEN IF reply = TransportFailure
         THEN Raised(FluxAPIError("Request failed", "", NoResponse))
         ELSE Raised(FluxAPIError("Request failed", "response.text", reply))
    ELSE IF reply.text = "garbage"
    THEN Raised(FluxAPIError("Invalid JSON response", "response.text", reply))
    ELSE IF ~reply.ok
    THEN LET m == ErrorMessage(reply) IN
         IF m.kind = "raise" THEN m
         ELSE Raised(FluxAPIError("API error", PyStr(m.value), reply))
    ELSE Returned(DecodeBody(reply))

(***************************************************************************)
(* The replies the service is observed to give, per endpoint.              *)
(***************************************************************************)
\* Bodies of a non-2xx response and other generic failures of an exchange.
FailureReplies ==
    { TransportFailure,
      RedirectLoop,
      Http(TRUE, "garbage", JNull),
      Http(FALSE, "garbage", JNull),
      Http(FALSE, "empty", JNull),
      Http(FALSE, "json", JObj([error |-> JObj([message |-> JStr("quota exceeded")])])),
      Http(FALSE, "json", JObj([error |-> JStr("denied")])),
      Http(FALSE, "json", JObj([detail |-> JStr("not found")])),
      Http(FALSE, "json", JList(NoFields)),
      Http(FALSE, "json", JStr("Internal Server Error")) }

\* 2xx bodies that are not a JSON object
NonObjectBodies ==
    { JList(NoFields), JList([k \in {"0"} |-> JStr("sample")]),
      JStr("ok"), JStr(""), JNum("7"), JNull }

\* 2xx replies to the submission POST of generate_image
SubmitReplies ==
    { Ok(JObj([id |-> JStr("inf-1")])),
      Ok(JObj([id |-> JStr("")])),
      Ok(JObj([id |-> JNull])),
      Ok(JObj([status |-> JStr("Pending")])),
      Http(TRUE, "empty", JNull) }
    \cup { Ok(b) : b \in {JList(NoFields), JStr("ok")} }
    \cup FailureReplies

PollStatuses == {"Pending", "Running", "Processing", "Ready", "Failed", "Error", "Queued"}

\* values of the nested `result` field of a status snapshot
NestedResults ==
    { JObj([sample |-> JStr("img-1")]),
      JObj([sample |-> JStr("img-2"), seed |-> JNum("7")]),
      JObj([seed |-> JNum("7")]),
      JNull,
      JStr("https://cdn/sample.png"),
      JStr("moderated"),
      JList([k \in {"0"} |-> JStr("sample")]) }

ErrorDetails == { JStr("content moderated") }

\* A status snapshot: each of status, result and error present or absent.
Snapshot(status, result, error) ==
    JObj([k \in (IF status = {} THEN {} ELSE {"status"})
                \cup (IF result = {} THEN {} ELSE {"result"})
                \cup (IF error = {} THEN {} ELSE {"error"}) |->
            CASE k = "status" -> JStr(CHOOSE x \in status : TRUE)
              [] k = "result" -> CHOOSE x \in result : TRUE
              [] k = "error"  -> CHOOSE x \in error : TRUE])

OneOrNone(S) == {{}} \cup {{x} : x \in S}

PollSnapshots ==
    { Snapshot(st, r, e) : st \in OneOrNone(PollStatuses),
                           r \in OneOrNone(NestedResults),
                           e \in OneOrNone(ErrorDetails) }

\* replies to a status poll (GET get_result)
PollReplies ==
    { Ok(b) : b \in PollSnapshots }
    \cup { Ok(b) : b \in {JList(NoFields), JStr("ok")} }
    \cup { Http(TRUE, "empty", JNull) }
    \cup FailureReplies

(***************************************************************************)
(* FluxAPI.generate_image                                                  *)
(***************************************************************************)
max_attempts == 30

\* time.sleep(2)
SleepSeconds == 2

\* except FluxAPIError: raise / except Exception as e: raise FluxAPIError(...)
WrapGenerateOnlyReraising(e) == e

WrapGenerate(e) ==
    IF e.type = "FluxAPIError" THEN e
    ELSE FluxAPIError("Failed to generate image", e.msg, NoResponse)

\* Step 1: the submission POST and the extraction of the inference id.
\* Returns the inference id, or raises.
SubmitGeneration(reply) ==
    LET r == MakeRequest(reply) IN
    IF r.kind = "raise" THEN r
    ELSE IF ~HasGet(r.value) THEN Raised(AttributeError)
    ELSE LET inference_id == GetOrNone(r.value, "id") IN
         IF ~Truthy(inference_id)
         THEN Raised(FluxAPIError("No inference ID in response", PyStr(r.value), NoResponse))
         ELSE Returned(inference_id)

\* while attempt < max_attempts
LoopContinuesOffByOne(a) == a <= max_attempts

LoopContinues(a) == a < max_attempts

\* result.get("status") == "Ready"
IsReady(result) == GetOrNone(result, "status") = JStr("Ready")

\* result.get("status") in ["Failed", "Error"]
IsFailedOnlyFailed(result) == GetOrNone(result, "status") = JStr("Failed")

IsFailedUnlessInProgress(result) ==
    GetOrNone(result, "status") \notin
        {JStr("Pending"), JStr("Running"), JStr("Processing"), JStr("Ready")}

IsFailed(result) == GetOrNone(result, "status") \in {JStr("Failed"), JStr("Error")}

\* return result["result"]
ReadyValueWholeSnapshot(result) == result

ReadyValue(result) == result.f["result"]

\* After `attempt += 1` the loop body ends with time.sleep(2).
AfterAttemptNoSleep == "polling"

AfterAttempt == "sleeping"

\* time.sleep(2): the clock after a wait that began at t
AfterSleepBackingOff(t) == t + SleepSeconds + 1

AfterSleep(t) == t + SleepSeconds

\* get_progress is called inside the loop with no handler of its own: what
\* it raises leaves the loop.
PollFailureSwallowed(r) == [kind |-> "continue", value |-> JNull, exc |-> NoExc]

PollFailure(r) == r

\* One iteration of the loop body up to `attempt += 1`: the status poll and
\* its inspection.  kind = "return" / "raise" ends the call, "continue" goes
\* on to `attempt += 1; time.sleep(2)`.
PollOnce(reply) ==
    LET r == MakeRequest(reply) IN
    IF r.kind = "raise" THEN PollFailure(r)
    ELSE LET result == r.value IN
    IF ~HasGet(result) THEN Raised(AttributeError)
    ELSE IF IsReady(result)
    THEN IF "result" \in DOMAIN result.f
         THEN IF ~SupportsIn(result.f["result"]) THEN Raised(TypeError)
              ELSE IF PyIn("sample", result.f["result"])
                   THEN Returned(ReadyValue(result))
                   ELSE Raised(FluxAPIError("Invalid result format", PyStr(result), NoResponse))
         ELSE Raised(FluxAPIError("Invalid result format", PyStr(result), NoResponse))
    ELSE IF IsFailed(result)
    THEN Raised(FluxAPIError("Image generation failed",
                             PyStr(Get(result, "error", JStr("Unknown error"))),
                             NoResponse))
    ELSE [kind |-> "continue", value |-> JNull, exc |-> NoExc]

(***************************************************************************)
(* FluxAPI.request_finetuning                                              *)
(***************************************************************************)
\* 2xx bodies of the finetune POST: objects with each of id, finetune_id
\* and status present or absent
FinetuneBody(id, finetune_id, status) ==
    JObj([k \in (IF id = {} THEN {} ELSE {"id"})
                \cup (IF finetune_id = {} THEN {} ELSE {"finetune_id"})
                \cup (IF status = {} THEN {} ELSE {"status"}) |->
            CASE k = "id" -> CHOOSE x \in id : TRUE
              [] k = "finetune_id" -> CHOOSE x \in finetune_id : TRUE
              [] k = "status" -> CHOOSE x \in status : TRUE])

FinetuneObjects ==
    { FinetuneBody(i, f, st) : i \in OneOrNone({JStr("ft-1"), JStr(""), JNull}),
                               f \in OneOrNone({JStr("ft-2"), JStr("")}),
                               st \in OneOrNone({JStr("Pending")}) }

FinetuneReplies ==
    { Ok(b) : b \in FinetuneObjects \cup NonObjectBodies }
    \cup { Http(TRUE, "empty", JNull) }
    \cup FailureReplies

\* except FluxAPIError: raise / except Exception as e: raise FluxAPIError(...)
WrapFinetuning(e) ==
    IF e.type = "FluxAPIError" THEN e
    ELSE FluxAPIError("Failed to start finetuning job", e.msg, NoResponse)

\* isinstance(response, dict)
ValidResponseTypeUnchecked(response) == TRUE

ValidResponseType(response) == IsDict(response)

\* response.get('id') or response.get('finetune_id')
FinetuneIdPreferringFinetuneId(response) ==
    PyOr(GetOrNone(response, "finetune_id"), GetOrNone(response, "id"))

FinetuneId(response) ==
    PyOr(GetOrNone(response, "id"), GetOrNone(response, "finetune_id"))

\* response['id'] = finetune_id
SetId(response, finetune_id) ==
    JObj([k \in DOMAIN response.f \cup {"id"} |->
            IF k = "id" THEN finetune_id ELSE response.f[k]])

\* the body of the try block of request_finetuning
FinetuneTry(reply) ==
    LET r == MakeRequest(reply) IN
    IF r.kind = "raise" THEN r
    ELSE LET response == r.value IN
    IF ~ValidResponseType(response)
    THEN Raised(FluxAPIError("Invalid response type", response.t, NoResponse))
    ELSE IF ~HasGet(response) THEN Raised(AttributeError)
    ELSE LET finetune_id == FinetuneId(response) IN
         IF ~Truthy(finetune_id)
         THEN Raised(FluxAPIError("No finetune ID in response", PyStr(response), NoResponse))
         ELSE Returned(SetId(response, finetune_id))

RequestFinetuningResult(reply) ==
    LET r == FinetuneTry(reply) IN
    IF r.kind = "raise" THEN Raised(WrapFinetuning(r.exc)) ELSE r

(***************************************************************************)
(* FluxAPI.get_finetune_details                                            *)
(***************************************************************************)
DetailsReplies ==
    { Ok(b) : b \in NonObjectBodies \cup {JStr("Ready"), JStr("Pending")} }
    \cup { Ok(JBool("true")), Ok(JBool("false")) }
    \cup { Ok(JObj([finetune_comment |-> JStr("cat"), status |-> JStr("Ready")])),
           Ok(EmptyObj),
           Http(TRUE, "empty", JNull) }
    \cup FailureReplies

\* "status": response if response else "Unknown"
StatusOfStringAlwaysUnknown(response) == JStr("Unknown")

StatusOfString(response) == IF Truthy(response) THEN response ELSE JStr("Unknown")

\* return self._make_request(...), without the handling of response formats
GetFinetuneDetailsPassingOn(reply) == MakeRequest(reply)

\* get_finetune_details has no try block: whatever _make_request raises
\* propagates unchanged.
GetFinetuneDetailsResult(reply) ==
    LET r == MakeRequest(reply) IN
    IF r.kind = "raise" THEN r
    ELSE LET response == r.value IN
    IF IsDict(response) THEN Returned(response)
    ELSE IF IsStr(response)
    THEN Returned(JObj([finetune_comment |-> JStr("N/A"),
                        status |-> StatusOfString(response),
                        created_at |-> JStr("N/A")]))
    ELSE Returned(JObj([finetune_comment |-> JStr("Error: Invalid response format"),
                        status |-> JStr("Unknown"),
                        created_at |-> JStr("N/A")]))

(***************************************************************************)
(* FluxAPI.get_progress, FluxAPI.list_finetunes, FluxAPI.delete_finetune:  *)
(* each returns what _make_request returns and lets what it raises through *)
(***************************************************************************)
GetProgressResult(reply) == MakeRequest(reply)

ListFinetunesResult(reply) == MakeRequest(reply)

DeleteFinetuneResult(reply) == MakeRequest(reply)

ListReplies ==
    { Ok(JList(NoFields)),
      Ok(JList([k \in {"0"} |-> JObj([id |-> JStr("ft-1")])])),
      Ok(JObj([finetunes |-> JList(NoFields)])),
      Http(TRUE, "empty", JNull) }
    \cup FailureReplies

DeleteReplies ==
    { Ok(JObj([status |-> JStr("deleted")])),
      Ok(JStr("ok")),
      Http(TRUE, "empty", JNull) }
    \cup FailureReplies

(***************************************************************************)
(* State.  One client executes one operation at a time (the client is      *)
(* synchronous); the history variables polls, sleeps, now, lastRequestAt,  *)
(* lastGap, lastReply and allPending observe the call in progress.         *)
(***************************************************************************)
VARIABLES
    op,             \* the operation being executed, "none" between calls
    pc,             \* "idle", "polling", "sleeping" or "done"
    attempt,        \* generate_image: the loop counter
    outcome,        \* what the call returned or raised
    polls,          \* status polls issued by this call
    sleeps,         \* time.sleep(2) calls made by this call
    now,            \* time elapsed in this call
    lastRequestAt,  \* `now` at the call's most recent HTTP request
    lastGap,        \* time between the most recent poll and the request before it
    lastReply,      \* the reply to the call's most recent HTTP request
    allPending,     \* every poll so far succeeded and reported Pending
    requests        \* HTTP requests issued by this call

apiVars == <<op, pc, attempt, outcome, polls, sleeps, now, lastRequestAt, lastGap,
             lastReply, allPending, requests>>

(***************************************************************************)
(* State of the UI (src/flux_trainer/ui.py) that holds the client.         *)
(***************************************************************************)
VARIABLES
    env,            \* os.getenv("BFL_API_KEY"): None or a str
    cached,         \* FluxTrainerUI.api: the cached client, or None
    made,           \* FluxAPI instances constructed so far
    handler,        \* per UI handler call: where it is and what it holds
    direct,         \* the most recent FluxAPI(api_key) made outside the UI
    progress        \* the most recent check_progress_with_state call

uiVars == <<env, cached, made, handler, direct, progress>>

vars == <<apiVars, uiVars>>

\* self.api = None
NoClient == [id |-> 0, api_key |-> JNull]

Handlers == {"h1", "h2"}

IdleHandler ==
    [pc |-> "idle", key |-> JNull, before |-> NoClient, api |-> NoClient,
     built |-> FALSE, sent |-> JNull, error |-> ""]

ApiInit ==
    /\ op = "none"
    /\ pc = "idle"
    /\ attempt = 0
    /\ outcome = NoOutcome
    /\ polls = 0
    /\ sleeps = 0
    /\ now = 0
    /\ lastRequestAt = 0
    /\ lastGap = 0
    /\ lastReply = NoResponse
    /\ allPending = TRUE
    /\ requests = 0

\* auto_refresh = gr.State(False), last_status = gr.State(""): the progress
\* handler has not run yet
NotChecked ==
    [finetune_id |-> "", output |-> "", auto_refresh |-> FALSE, last_status |-> JStr(""),
     requests |-> 0, reply |-> NoResponse, called |-> FALSE]

\* no FluxAPI(...) evaluated yet
NotConstructed == [arg |-> JNull, result |-> NoOutcome]

UiIdle ==
    /\ cached = NoClient
    /\ made = 0
    /\ handler = [h \in Handlers |-> IdleHandler]
    /\ direct = NotConstructed
    /\ progress = NotChecked

\* A client constructed with an explicit credential; no UI handler runs.
Init ==
    /\ ApiInit
    /\ env = JNull
    /\ UiIdle

\* generate_image up to the first evaluation of the loop condition
GenerateImage ==
    /\ pc = "idle"
    /\ \E reply \in SubmitReplies :
         LET r == SubmitGeneration(reply) IN
         /\ op' = "generate_image"
         /\ lastReply' = reply
         /\ IF r.kind = "raise"
            THEN /\ pc' = "done"
                 /\ outcome' = Raised(WrapGenerate(r.exc))
            ELSE /\ pc' = "polling"
                 /\ outcome' = NoOutcome
    /\ attempt' = 0
    /\ requests' = 1
    /\ UNCHANGED <<polls, sleeps, now, lastRequestAt, lastGap, allPending>>
    /\ UNCHANGED uiVars

\* the loop body: get_progress, the status checks and `attempt += 1`
Poll ==
    /\ pc = "polling"
    /\ LoopContinues(attempt)
    /\ \E reply \in PollReplies :
         LET r == PollOnce(reply) IN
         /\ lastReply' = reply
         /\ allPending' = (allPending /\ reply \in {Ok(b) : b \in PollSnapshots}
                                      /\ GetOrNone(reply.json, "status") = JStr("Pending"))
         /\ CASE r.kind = "return" ->
                   /\ pc' = "done"
                   /\ outcome' = r
                   /\ attempt' = attempt
              [] r.kind = "raise" ->
                   /\ pc' = "done"
                   /\ outcome' = Raised(WrapGenerate(r.exc))
                   /\ attempt' = attempt
              [] r.kind = "continue" ->
                   /\ pc' = AfterAttempt
                   /\ outcome' = outcome
                   /\ attempt' = attempt + 1
    /\ polls' = polls + 1
    /\ lastGap' = now - lastRequestAt
    /\ lastRequestAt' = now
    /\ requests' = requests + 1
    /\ UNCHANGED <<op, sleeps, now>>
    /\ UNCHANGED uiVars

\* time.sleep(2) at the end of the loop body
Sleep ==
    /\ pc = "sleeping"
    /\ now' = AfterSleep(now)
    /\ sleeps' = sleeps + 1
    /\ pc' = "polling"
    /\ UNCHANGED <<op, attempt, outcome, polls, lastRequestAt, lastGap, lastReply, allPending,
                   requests>>
    /\ UNCHANGED uiVars

\* the loop condition fails: raise FluxAPIError("Image generation timed out")
TimeOut ==
    /\ pc = "polling"
    /\ ~LoopContinues(attempt)
    /\ pc' = "done"
    /\ outcome' = Raised(WrapGenerate(FluxAPIError("Image generation timed out", "", NoResponse)))
    /\ UNCHANGED <<op, attempt, polls, sleeps, now, lastRequestAt, lastGap, lastReply, allPending,
                   requests>>
    /\ UNCHANGED uiVars

\* request_finetuning: one POST, then the validation of the response
RequestFinetuning ==
    /\ pc = "idle"
    /\ \E reply \in FinetuneReplies :
         /\ lastReply' = reply
         /\ outcome' = RequestFinetuningResult(reply)
    /\ op' = "request_finetuning"
    /\ pc' = "done"
    /\ requests' = 1
    /\ UNCHANGED <<attempt, polls, sleeps, now, lastRequestAt, lastGap, allPending>>
    /\ UNCHANGED uiVars

\* get_finetune_details: one GET, then the tolerance of response shapes
GetFinetuneDetails ==
    /\ pc = "idle"
    /\ \E reply \in DetailsReplies :
         /\ lastReply' = reply
         /\ outcome' = GetFinetuneDetailsResult(reply)
    /\ op' = "get_finetune_details"
    /\ pc' = "done"
    /\ requests' = 1
    /\ UNCHANGED <<attempt, polls, sleeps, now, lastRequestAt, lastGap, allPending>>
    /\ UNCHANGED uiVars

\* get_progress: one GET
GetProgress ==
    /\ pc = "idle"
    /\ \E reply \in PollReplies :
         /\ lastReply' = reply
         /\ outcome' = GetProgressResult(reply)
    /\ op' = "get_progress"
    /\ pc' = "done"
    /\ requests' = 1
    /\ UNCHANGED <<attempt, polls, sleeps, now, lastRequestAt, lastGap, allPending>>
    /\ UNCHANGED uiVars

\* list_finetunes: one GET
ListFinetunes ==
    /\ pc = "idle"
    /\ \E reply \in ListReplies :
         /\ lastReply' = reply
         /\ outcome' = ListFinetunesResult(reply)
    /\ op' = "list_finetunes"
    /\ pc' = "done"
    /\ requests' = 1
    /\ UNCHANGED <<attempt, polls, sleeps, now, lastRequestAt, lastGap, allPending>>
    /\ UNCHANGED uiVars

\* delete_finetune: one POST
DeleteFinetune ==
    /\ pc = "idle"
    /\ \E reply \in DeleteReplies :
         /\ lastReply' = reply
         /\ outcome' = DeleteFinetuneResult(reply)
    /\ op' = "delete_finetune"
    /\ pc' = "done"
    /\ requests' = 1
    /\ UNCHANGED <<attempt, polls, sleeps, now, lastRequestAt, lastGap, allPending>>
    /\ UNCHANGED uiVars

\* The caller has the result; the client is ready for the next call.
Finish ==
    /\ pc = "done"
    /\ op' = "none"
    /\ pc' = "idle"
    /\ attempt' = 0
    /\ outcome' = NoOutcome
    /\ polls' = 0
    /\ sleeps' = 0
    /\ now' = 0
    /\ lastRequestAt' = 0
    /\ lastGap' = 0
    /\ lastReply' = NoResponse
    /\ allPending' = TRUE
    /\ requests' = 0
    /\ UNCHANGED uiVars

Next ==
    \/ GenerateImage
    \/ Poll
    \/ Sleep
    \/ TimeOut
    \/ RequestFinetuning
    \/ GetFinetuneDetails
    \/ GetProgress
    \/ ListFinetunes
    \/ DeleteFinetune
    \/ Finish

Spec == Init /\ [][Next]_vars

\* The client is sequential code: a call in progress takes its next step
\* whenever the HTTP request it waits for has returned.
FairSpec == Spec /\ WF_vars(Poll) /\ WF_vars(Sleep) /\ WF_vars(TimeOut)

(***************************************************************************)
(* FluxAPI.__init__ and the UI's client cache (FluxTrainerUI._get_api).    *)
(* Gradio runs handler calls on worker threads, so the steps of two calls  *)
(* interleave; each action below is one read or one write of               *)
(* FluxTrainerUI.api.                                                      *)
(***************************************************************************)
MaxClients == 4

Envs == {JNull, JStr(""), JStr("key-b")}

UiKeys == {JStr(""), JStr("key-a"), JStr("key-b")}

ApiKeyArgs == {JNull} \cup UiKeys

ValueError == [type |-> "ValueError", msg |-> "API key must be provided",
               detail |-> "", response |-> NoResponse]

\* self.api_key = api_key or os.getenv("BFL_API_KEY")
ApiKeyEnvFirst(api_key, environ) == PyOr(environ, api_key)

ApiKey(api_key, environ) == PyOr(api_key, environ)

\* FluxAPI(api_key): the credential of the new client, or ValueError
FluxAPI(api_key, environ) ==
    LET k == ApiKey(api_key, environ) IN
    IF ~Truthy(k) THEN Raised(ValueError) ELSE Returned(k)

\* self.default_api_key = os.getenv("BFL_API_KEY", "")
default_api_key(environ) == IF environ = JNull THEN JStr("") ELSE environ

\* return ui_key if ui_key else self.default_api_key
get_api_key(ui_key, environ) ==
    IF Truthy(ui_key) THEN ui_key ELSE default_api_key(environ)

\* self.api.api_key != api_key
KeyNeverDiffers(api, api_key) == FALSE

KeyDiffers(api, api_key) == api.api_key # api_key

Active == {h \in Handlers : handler[h].pc # "idle"}

\* A handler is called with the key typed in the UI and reaches
\* self._get_api(api_key).
CallHandler(h, others) ==
    /\ handler[h].pc = "idle"
    /\ Active \subseteq others
    /\ made + Cardinality(Active) < MaxClients
    /\ \E ui_key \in UiKeys :
         handler' = [handler EXCEPT ![h] =
                        [IdleHandler EXCEPT !.pc = "check",
                                            !.key = get_api_key(ui_key, env),
                                            !.before = cached]]
    /\ UNCHANGED <<env, cached, made, direct, progress>>
    /\ UNCHANGED apiVars

\* calls may overlap
Call == \E h \in Handlers : CallHandler(h, Handlers)

\* one call after the other
CallAlone == \E h \in Handlers : CallHandler(h, {})

\* if not self.api
CheckCached ==
    /\ \E h \in Handlers :
         /\ handler[h].pc = "check"
         /\ handler' = [handler EXCEPT ![h].pc =
                          IF cached = NoClient THEN "construct" ELSE "compare"]
    /\ UNCHANGED <<env, cached, made, direct, progress>>
    /\ UNCHANGED apiVars

\* or self.api.api_key != api_key
CompareKey ==
    /\ \E h \in Handlers :
         /\ handler[h].pc = "compare"
         /\ handler' = [handler EXCEPT ![h].pc =
                          IF KeyDiffers(cached, handler[h].key) THEN "construct" ELSE "return"]
    /\ UNCHANGED <<env, cached, made, direct, progress>>
    /\ UNCHANGED apiVars

\* self.api = FluxAPI(api_key); a ValueError ends the handler call
StoreClient ==
    /\ \E h \in Handlers :
         LET r == FluxAPI(handler[h].key, env) IN
         /\ handler[h].pc = "construct"
         /\ IF r.kind = "raise"
            THEN /\ handler' = [handler EXCEPT ![h].pc = "failed",
                                               ![h].error = r.exc.type]
                 /\ UNCHANGED <<cached, made>>
            ELSE /\ made' = made + 1
                 /\ cached' = [id |-> made + 1, api_key |-> r.value]
                 /\ handler' = [handler EXCEPT ![h].pc = "return",
                                               ![h].built = TRUE]
    /\ UNCHANGED <<env, direct, progress>>
    /\ UNCHANGED apiVars

\* return self.api
ReturnApi ==
    /\ \E h \in Handlers :
         /\ handler[h].pc = "return"
         /\ handler' = [handler EXCEPT ![h].pc = "request", ![h].api = cached]
    /\ UNCHANGED <<env, cached, made, direct, progress>>
    /\ UNCHANGED apiVars

\* the handler's call on the client: a request with "X-Key": self.api_key
SendRequest ==
    /\ \E h \in Handlers :
         /\ handler[h].pc = "request"
         /\ handler' = [handler EXCEPT ![h].pc = "done",
                                       ![h].sent = handler[h].api.api_key]
    /\ UNCHANGED <<env, cached, made, direct, progress>>
    /\ UNCHANGED apiVars

\* the handler returns its text to the UI
HandlerReturns ==
    /\ \E h \in Handlers :
         /\ handler[h].pc \in {"done", "failed"}
         /\ handler' = [handler EXCEPT ![h] = IdleHandler]
    /\ UNCHANGED <<env, cached, made, direct, progress>>
    /\ UNCHANGED apiVars

\* FluxAPI(api_key) evaluated by a caller of the library
Construct ==
    /\ \E api_key \in ApiKeyArgs :
         direct' = [arg |-> api_key, result |-> FluxAPI(api_key, env)]
    /\ UNCHANGED <<env, cached, made, handler, progress>>
    /\ UNCHANGED apiVars

UIInit ==
    /\ ApiInit
    /\ env \in Envs
    /\ UiIdle

GetApiSteps ==
    \/ CheckCached
    \/ CompareKey
    \/ StoreClient
    \/ ReturnApi
    \/ SendRequest
    \/ HandlerReturns

UINext == Call \/ GetApiSteps \/ Construct

UISpec == UIInit /\ [][UINext]_vars

SeqUINext == CallAlone \/ GetApiSteps

SeqUISpec == UIInit /\ [][SeqUINext]_vars

(***************************************************************************)
(* check_progress_with_state, the handler behind the progress check and    *)
(* its auto-refresh (ui.py).  One call runs from start to end here: the    *)
(* interleaving of calls inside _get_api is the subject of UISpec.         *)
(***************************************************************************)
AUTO_REFRESH_STATES == {"Pending", "Running", "Processing"}

FinetuneIds == {"", "ft-1"}

\* replies to the handler's get_progress: those of a status poll, and
\* snapshots whose status is not a string
ProgressReplies ==
    PollReplies
    \cup { Ok(JObj([status |-> st, progress |-> JStr("0.4")])) :
             st \in {JStr("Running"), JStr("Ready"), JNull, JNum("1"),
                     JList(NoFields), EmptyObj} }

KeyError == [type |-> "KeyError", msg |-> "'status'", detail |-> "", response |-> NoResponse]

\* result['status']
Subscript(result, key) ==
    IF ~IsDict(result) THEN Raised(TypeError)
    ELSE IF key \in DOMAIN result.f THEN Returned(result.f[key])
    ELSE Raised(KeyError)

\* a set member is hashed first: a list or a dict raises TypeError
Hashable(v) == v.t \notin {"obj", "list"}

\* should_refresh = status in AUTO_REFRESH_STATES
ShouldRefreshUnlessReady(status) == status # JStr("Ready")

ShouldRefresh(status) == status.t = "str" /\ status.s \in AUTO_REFRESH_STATES

\* self._get_api(api_key), run without interruption: the exception it
\* raises (or none) and self.api afterwards
get_api(api, api_key, environ, id) ==
    IF api = NoClient \/ KeyDiffers(api, api_key)
    THEN LET r == FluxAPI(api_key, environ) IN
         IF r.kind = "raise"
         THEN [exc |-> r.exc, api |-> api, built |-> FALSE]
         ELSE [exc |-> NoExc, api |-> [id |-> id, api_key |-> r.value], built |-> TRUE]
    ELSE [exc |-> NoExc, api |-> api, built |-> FALSE]

\* what the handler returns: (output, should_refresh, status)
HandlerResult(finetune_id, output, should_refresh, status, sent, reply) ==
    [finetune_id |-> finetune_id, output |-> output, auto_refresh |-> should_refresh,
     last_status |-> status, requests |-> sent, reply |-> reply, called |-> TRUE]

\* except FluxAPIError as e: ... / except Exception as e: ...
HandlerError(finetune_id, exc, sent, reply) ==
    HandlerResult(finetune_id,
                  IF exc.type = "FluxAPIError" THEN "API Error" ELSE "Error",
                  FALSE, JStr(""), sent, reply)

\* check_progress_with_state(finetune_id, api_key, auto_refresh, last_status)
\* given what self._get_api(api_key) did and the reply to get_progress
check_progress_with_state(finetune_id, got, reply) ==
    IF finetune_id = ""
    THEN HandlerResult(finetune_id, "Error: Please enter a Finetune ID", FALSE, JStr(""),
                       0, NoResponse)
    ELSE IF got.exc # NoExc THEN HandlerError(finetune_id, got.exc, 0, NoResponse)
    ELSE LET result == GetProgressResult(reply) IN
    IF result.kind = "raise" THEN HandlerError(finetune_id, result.exc, 1, reply)
    ELSE LET status == Subscript(result.value, "status") IN
    IF status.kind = "raise" THEN HandlerError(finetune_id, status.exc, 1, reply)
    ELSE IF ~Hashable(status.value) THEN HandlerError(finetune_id, TypeError, 1, reply)
    ELSE HandlerResult(finetune_id, "Status", ShouldRefresh(status.value), status.value,
                       1, reply)

\* handle_progress_with_key: the refresh click or the refresh timer
CheckProgress ==
    /\ made < MaxClients
    /\ \E finetune_id \in FinetuneIds, ui_key \in UiKeys, reply \in ProgressReplies :
         LET api_key == get_api_key(ui_key, env)
             got == IF finetune_id = ""
                    THEN [exc |-> NoExc, api |-> cached, built |-> FALSE]
                    ELSE get_api(cached, api_key, env, made + 1)
         IN /\ progress' = check_progress_with_state(finetune_id, got, reply)
            /\ cached' = got.api
            /\ made' = IF got.built THEN made + 1 ELSE made
    /\ UNCHANGED <<env, handler, direct>>
    /\ UNCHANGED apiVars

ProgressNext == CheckProgress

ProgressSpec == UIInit /\ [][ProgressNext]_vars

(***************************************************************************)
(* The error families of the specification, read off the message each      *)
(* FluxAPIError is raised with (the only thing that tells them apart).     *)
(***************************************************************************)
IsError(o, msgs) ==
    o.kind = "raise" /\ o.exc.type = "FluxAPIError" /\ o.exc.msg \in msgs

IsTimeout(o) == IsError(o, {"Image generation timed out"})

IsGenerationFailed(o) == IsError(o, {"Image generation failed"})

IsInvalidResponse(o) ==
    IsError(o, {"No inference ID in response", "Invalid result format",
                "Invalid response type", "No finetune ID in response"})

IsRequestFailed(o) ==
    IsError(o, {"Request failed", "Invalid JSON response", "API error"})

\* a 2xx reply whose body decodes to a JSON object
IsObjectReply(reply) ==
    reply.net = "response" /\ reply.ok /\ reply.text = "json" /\ reply.json.t = "obj"

StatusIn(reply, names) ==
    /\ IsObjectReply(reply)
    /\ "status" \in DOMAIN reply.json.f
    /\ reply.json.f["status"].t = "str"
    /\ reply.json.f["status"].s \in names

\* the status poll most recently answered, in a generate_image call
Polled == op = "generate_image" /\ polls >= 1

\* Ready with a nested result object that holds a `sample`
ReadyWithSample(reply) ==
    /\ StatusIn(reply, {"Ready"})
    /\ "result" \in DOMAIN reply.json.f
    /\ reply.json.f["result"].t = "obj"
    /\ "sample" \in DOMAIN reply.json.f["result"].f

\* Ready with no nested result, or with a nested result that holds no
\* `sample` (no key of an object, no element of a list, no part of a
\* string, or not a container at all)
ReadyMalformed(reply) ==
    /\ StatusIn(reply, {"Ready"})
    /\ \/ "result" \notin DOMAIN reply.json.f
       \/ LET nested == reply.json.f["result"] IN
          CASE nested.t = "obj"  -> "sample" \notin DOMAIN nested.f
            [] nested.t = "list" -> \A i \in DOMAIN nested.f : nested.f[i] # JStr("sample")
            [] nested.t = "str"  -> nested.s \notin {"sample", "https://cdn/sample.png"}
            [] OTHER -> TRUE

(***************************************************************************)
(* C1: against a service whose every status poll succeeds and reports      *)
(* Pending, generate_image fails with the Timeout error after exactly 30   *)
(* polls; no call ever issues a 31st poll, and Timeout is never raised     *)
(* after fewer than 30.                                                    *)
(***************************************************************************)
C1_TimeoutAfterThirtyPolls ==
    /\ polls <= 30
    /\ (op = "generate_image" /\ IsTimeout(outcome)) => polls = 30
    /\ (Polled /\ allPending /\ pc = "done") => (IsTimeout(outcome) /\ polls = 30)

C1_Witness ==
    Polled /\ allPending /\ pc = "done" /\ polls = 30 /\ IsTimeout(outcome)

(***************************************************************************)
(* C2: when the k-th poll (1 <= k <= 30) reports Ready with a nested       *)
(* result holding a sample, after k-1 non-terminal polls, generate_image   *)
(* returns exactly that nested result after exactly k polls, and no poll   *)
(* is issued once the call has ended.                                      *)
(***************************************************************************)
C2_ReadyReturnsNestedResult ==
    /\ [](Polled /\ ReadyWithSample(lastReply) =>
            /\ pc = "done"
            /\ outcome = Returned(lastReply.json.f["result"])
            /\ polls = attempt + 1
            /\ polls \in 1..30)
    /\ [][pc = "done" => (polls' = polls \/ pc' = "idle")]_vars

C2_Witness ==
    /\ Polled /\ ReadyWithSample(lastReply)
    /\ polls = 30 /\ attempt = 29
    /\ outcome.kind = "return" /\ outcome.value = JObj([sample |-> JStr("img-1")])

(***************************************************************************)
(* C3: when a poll reports status Failed or Error, generate_image fails at *)
(* that poll with the GenerationFailed error, carrying the service's       *)
(* `error` detail when present ("Unknown error" otherwise); the failing    *)
(* poll is followed by no wait and no poll.                                *)
(***************************************************************************)
C3_FailedFailsImmediately ==
    (Polled /\ StatusIn(lastReply, {"Failed", "Error"})) =>
        /\ pc = "done"
        /\ IsGenerationFailed(outcome)
        /\ outcome.exc.detail =
             (IF "error" \in DOMAIN lastReply.json.f
              THEN lastReply.json.f["error"].s
              ELSE "Unknown error")
        /\ polls = attempt + 1
        /\ sleeps = polls - 1

C3_Witness ==
    /\ Polled /\ StatusIn(lastReply, {"Error"}) /\ pc = "done"
    /\ polls = 1 /\ sleeps = 0
    /\ IsGenerationFailed(outcome) /\ outcome.exc.detail = "content moderated"

(***************************************************************************)
(* C4: when a poll reports Ready but the response has no nested result or  *)
(* the nested result holds no sample, generate_image fails at that poll    *)
(* with the InvalidResponse error.                                         *)
(***************************************************************************)
C4_ReadyMalformedIsInvalidResponse ==
    (Polled /\ ReadyMalformed(lastReply)) =>
        (pc = "done" /\ IsInvalidResponse(outcome) /\ polls = attempt + 1)

(***************************************************************************)
(* C5: every generate_image call terminates, and it ends in exactly one of *)
(* a returned result, InvalidResponse, GenerationFailed, RequestFailed or  *)
(* Timeout.                                                                *)
(***************************************************************************)
GenerateImageTerminates == (pc \in {"polling", "sleeping"}) ~> (pc = "done")

C5_TerminatesInOneOfFiveOutcomes ==
    /\ GenerateImageTerminates
    /\ []((op = "generate_image" /\ pc = "done") =>
            \/ outcome.kind = "return"
            \/ IsInvalidResponse(outcome)
            \/ IsGenerationFailed(outcome)
            \/ IsRequestFailed(outcome)
            \/ IsTimeout(outcome))

(***************************************************************************)
(* C6 as claimed: every status poll of a generate_image call, the first    *)
(* one included, is preceded by a wait of 2 time-units since the previous  *)
(* request of that call.                                                   *)
(***************************************************************************)
C6_EveryPollPrecededByWait == Polled => lastGap = 2

(***************************************************************************)
(* C6 as amended: the loop is check-then-wait.  The first status poll      *)
(* follows the submission POST with no wait; every later poll comes        *)
(* exactly 2 time-units after the poll before it; a wait of 2 follows      *)
(* every non-terminal poll.                                                *)
(***************************************************************************)
C6_WaitBetweenPolls ==
    /\ (Polled /\ polls = 1) => lastGap = 0
    /\ (Polled /\ polls >= 2) => lastGap = 2
    /\ (op = "generate_image" /\ pc \in {"polling", "done"}) => sleeps = attempt
    /\ (op = "generate_image" /\ pc = "sleeping") => sleeps = attempt - 1
    /\ now = 2 * sleeps

C6_Witness == Polled /\ polls = 2 /\ lastGap = 2 /\ sleeps = 1

(***************************************************************************)
(* C7: when the response to the submission POST of generate_image holds no *)
(* job id, the call fails with the InvalidResponse error and issues no     *)
(* status poll.                                                            *)
(***************************************************************************)
\* a 2xx reply in which no job id can be found
NoJobId(reply) ==
    /\ reply.net = "response" /\ reply.ok /\ reply.text # "garbage"
    /\ \/ reply.text = "empty"
       \/ reply.json.t # "obj"
       \/ "id" \notin DOMAIN reply.json.f
       \/ reply.json.f["id"] \in {JNull, JStr("")}

C7_NoJobIdIsInvalidResponse ==
    (op = "generate_image" /\ polls = 0 /\ NoJobId(lastReply)) =>
        (pc = "done" /\ IsInvalidResponse(outcome))

(***************************************************************************)
(* C8: request_finetuning succeeds whenever the service returns an object  *)
(* carrying a job identifier under `id` or under `finetune_id`; the `id`   *)
(* of the returned object is the response's `id` when that is present and  *)
(* non-empty, otherwise its `finetune_id`; every other field is returned   *)
(* unchanged.                                                              *)
(***************************************************************************)
\* field k of the body is present and a non-empty string
Carries(body, k) ==
    k \in DOMAIN body.f /\ body.f[k].t = "str" /\ body.f[k].s # ""

C8_FinetuneIdNormalised ==
    (/\ op = "request_finetuning" /\ pc = "done"
     /\ IsObjectReply(lastReply)
     /\ (Carries(lastReply.json, "id") \/ Carries(lastReply.json, "finetune_id"))) =>
        LET body == lastReply.json IN
        /\ outcome.kind = "return"
        /\ outcome.value.t = "obj"
        /\ DOMAIN outcome.value.f = DOMAIN body.f \cup {"id"}
        /\ outcome.value.f["id"] =
             (IF Carries(body, "id") THEN body.f["id"] ELSE body.f["finetune_id"])
        /\ \A k \in DOMAIN body.f \ {"id"} : outcome.value.f[k] = body.f[k]

C8_Witness ==
    /\ op = "request_finetuning" /\ pc = "done"
    /\ IsObjectReply(lastReply)
    /\ Carries(lastReply.json, "id") /\ Carries(lastReply.json, "finetune_id")
    /\ lastReply.json.f["id"] # lastReply.json.f["finetune_id"]
    /\ "status" \in DOMAIN lastReply.json.f
    /\ outcome.kind = "return"
    /\ outcome.value.f["id"] = JStr("ft-1")

(***************************************************************************)
(* C9: request_finetuning fails with the InvalidResponse error when the    *)
(* 2xx response is an object with neither `id` nor `finetune_id`, and when *)
(* the decoded 2xx body is not an object; no job result is returned.       *)
(***************************************************************************)
\* a 2xx reply that decodes (an empty body decodes to the empty object)
Decodes(reply) == reply.net = "response" /\ reply.ok /\ reply.text # "garbage"

C9_NoIdIsInvalidResponse ==
    (/\ op = "request_finetuning" /\ pc = "done"
     /\ Decodes(lastReply)
     /\ \/ lastReply.text = "empty"
        \/ lastReply.json.t # "obj"
        \/ DOMAIN lastReply.json.f \cap {"id", "finetune_id"} = {}) =>
        (outcome.kind = "raise" /\ IsInvalidResponse(outcome))

C9_Witness ==
    /\ op = "request_finetuning" /\ pc = "done"
    /\ lastReply = Ok(JList(NoFields))
    /\ IsError(outcome, {"Invalid response type"})

(***************************************************************************)
(* C10 as claimed: for every string s returned as the bare body of a 2xx   *)
(* finetune_details response, get_finetune_details returns an object whose *)
(* status is s and whose other fields are marked unknown.                  *)
(***************************************************************************)
BareString(reply) ==
    reply.net = "response" /\ reply.ok /\ reply.text = "json" /\ reply.json.t = "str"

OthersUnknown(v) ==
    /\ v.t = "obj"
    /\ DOMAIN v.f = {"finetune_comment", "status", "created_at"}
    /\ v.f["finetune_comment"] = JStr("N/A")
    /\ v.f["created_at"] = JStr("N/A")

C10_StatusIsRawString ==
    (op = "get_finetune_details" /\ pc = "done" /\ BareString(lastReply)) =>
        /\ outcome.kind = "return"
        /\ OthersUnknown(outcome.value)
        /\ outcome.value.f["status"] = lastReply.json

(***************************************************************************)
(* C10 as amended: for every non-empty string s returned as the bare body  *)
(* of a 2xx finetune_details response, get_finetune_details returns an     *)
(* object whose status is s; for the empty string the status is "Unknown". *)
(* In both cases the other fields are marked unknown and no error is       *)
(* raised.                                                                 *)
(***************************************************************************)
C10_StatusIsRawStringUnlessEmpty ==
    (op = "get_finetune_details" /\ pc = "done" /\ BareString(lastReply)) =>
        /\ outcome.kind = "return"
        /\ OthersUnknown(outcome.value)
        /\ outcome.value.f["status"] =
             (IF lastReply.json.s # "" THEN lastReply.json ELSE JStr("Unknown"))

C10_Witness ==
    /\ op = "get_finetune_details" /\ pc = "done"
    /\ lastReply = Ok(JStr("Pending"))
    /\ outcome.kind = "return"
    /\ outcome.value.f["status"] = JStr("Pending")

(***************************************************************************)
(* C11: for every client operation a non-2xx HTTP response fails the call  *)
(* with the RequestFailed error (a FluxAPIError) carrying that response,   *)
(* whatever the shape of its JSON body.                                    *)
(***************************************************************************)
NonOk(reply) == reply.net = "response" /\ ~reply.ok

C11_NonOkIsRequestFailed ==
    (op # "none" /\ NonOk(lastReply)) =>
        /\ pc = "done"
        /\ outcome.kind = "raise"
        /\ outcome.exc.type = "FluxAPIError"
        /\ IsRequestFailed(outcome)
        /\ outcome.exc.response = lastReply

(***************************************************************************)
(* C12: the error _make_request raises for a non-2xx response or for an    *)
(* undecodable body carries the HTTP response; the error it raises for a   *)
(* transport failure without response carries none.                        *)
(***************************************************************************)
\* the operations that pass on what _make_request raises as it is
PassesErrorsOn ==
    op \in {"get_progress", "list_finetunes", "delete_finetune", "get_finetune_details"}

C12_ErrorTellsRejectionFromNoResponse ==
    (PassesErrorsOn /\ pc = "done") =>
        /\ (lastReply.net = "response" /\ (~lastReply.ok \/ lastReply.text = "garbage")) =>
              (outcome.kind = "raise" /\ outcome.exc.response = lastReply)
        /\ (lastReply = TransportFailure) =>
              (outcome.kind = "raise" /\ outcome.exc.response = NoResponse)

(***************************************************************************)
(* C13: no automatic retry.  Each call of request_finetuning,              *)
(* get_progress, list_finetunes, get_finetune_details and delete_finetune  *)
(* issues exactly one HTTP request; a generate_image call issues the       *)
(* submission and one request per poll, and none after the first request   *)
(* that fails.                                                             *)
(***************************************************************************)
\* the exchange gave no decodable 2xx response
RequestFails(reply) ==
    reply.net = "error" \/ (reply.net = "response" /\ (~reply.ok \/ reply.text = "garbage"))

C13_NoAutomaticRetry ==
    /\ []((op \notin {"none", "generate_image"}) => (pc = "done" /\ requests = 1))
    /\ [](op = "generate_image" => requests = 1 + polls)
    /\ []((op = "generate_image" /\ RequestFails(lastReply)) => pc = "done")
    /\ [][pc = "done" => (requests' = requests \/ pc' = "idle")]_vars

C13_Witness ==
    /\ op = "generate_image" /\ pc = "done"
    /\ polls = 2 /\ requests = 3
    /\ lastReply = TransportFailure

(***************************************************************************)
(* C14: a request failure on any poll of generate_image ends the call with *)
(* the RequestFailed error; it is never counted as a non-terminal poll and *)
(* never ends in Timeout, which is raised only after 30 polls that all     *)
(* succeeded with a non-terminal status.                                   *)
(***************************************************************************)
C14_PollFailureIsRequestFailed ==
    /\ (Polled /\ RequestFails(lastReply)) =>
          (pc = "done" /\ IsRequestFailed(outcome) /\ polls = attempt + 1)
    /\ (op = "generate_image" /\ IsTimeout(outcome)) =>
          (polls = 30 /\ attempt = 30 /\ ~RequestFails(lastReply))

(***************************************************************************)
(* C15: FluxAPI(api_key) with no credential argument (None or "") and no   *)
(* BFL_API_KEY value fails at construction with the configuration error    *)
(* (ValueError), and no request is issued before that failure; with a      *)
(* non-empty argument or environment value it succeeds, and the argument   *)
(* takes precedence over the environment.                                  *)
(***************************************************************************)
Constructed == direct # NotConstructed

C15_ConstructionNeedsCredential ==
    /\ [](Constructed =>
            /\ (~Truthy(direct.arg) /\ ~Truthy(env)) => direct.result = Raised(ValueError)
            /\ Truthy(direct.arg) => direct.result = Returned(direct.arg)
            /\ (~Truthy(direct.arg) /\ Truthy(env)) => direct.result = Returned(env))
    /\ [](\A h \in Handlers :
            /\ handler[h].pc = "failed" =>
                  /\ handler[h].error = "ValueError"
                  /\ ~Truthy(handler[h].key) /\ ~Truthy(env)
                  /\ handler[h].sent = JNull /\ ~handler[h].built
            /\ (handler[h].pc = "construct" /\ (Truthy(handler[h].key) \/ Truthy(env))) =>
                  ENABLED StoreClient)
    /\ [][direct' # direct => requests' = requests]_vars
    /\ [][\A h \in Handlers :
            (handler[h].pc = "construct" /\ handler'[h].pc = "return") =>
                /\ cached'.api_key = PyOr(handler[h].key, env)
                /\ Truthy(cached'.api_key)]_vars

\* construction without any credential, failed
C15_Witness ==
    /\ env = JNull
    /\ direct.arg = JStr("")
    /\ direct.result = Raised(ValueError)
    /\ \E h \in Handlers : handler[h].pc = "failed"

(***************************************************************************)
(* C16: when two UI handler calls that supply different credentials run    *)
(* concurrently, every request issued on behalf of a call carries the      *)
(* credential supplied to that call, never the other call's.               *)
(***************************************************************************)
C16_RequestCarriesOwnCredential ==
    \A h \in Handlers :
        handler[h].pc = "done" => handler[h].sent = handler[h].key

(***************************************************************************)
(* C17: after any sequence of _get_api calls, a call _get_api(k) with a    *)
(* non-empty k returns a client whose credential is k; a new client is     *)
(* constructed exactly when no client is cached or the cached client's     *)
(* credential differs from k, and the cached instance is returned          *)
(* otherwise.                                                              *)
(***************************************************************************)
GotApi(h) == handler[h].pc \in {"request", "done"} /\ Truthy(handler[h].key)

C17_ResupplyReplacesCachedClient ==
    \A h \in Handlers :
        GotApi(h) =>
            LET c == handler[h] IN
            /\ c.api.api_key = c.key
            /\ c.built <=> (c.before = NoClient \/ c.before.api_key # c.key)
            /\ c.built => (c.api.id > c.before.id /\ c.api.id = made)
            /\ ~c.built => c.api = c.before
            /\ cached = c.api

\* a call that replaced the client cached for another credential
C17_Witness ==
    \E h \in Handlers :
        /\ GotApi(h) /\ handler[h].built
        /\ handler[h].before # NoClient
        /\ handler[h].before.api_key # handler[h].key
        /\ handler[h].api.api_key = handler[h].key

(***************************************************************************)
(* C18: the total time one generate_image call spends waiting between      *)
(* polls never exceeds 60 time-units (30 waits of 2 time-units), whatever   *)
(* the service answers.                                                    *)
(***************************************************************************)
C18_WaitsAtMostSixty ==
    op = "generate_image" =>
        /\ sleeps <= 30
        /\ now = 2 * sleeps
        /\ now <= 60

\* a call that waited the full 60 time-units and then timed out
C18_Witness ==
    op = "generate_image" /\ pc = "done" /\ IsTimeout(outcome) /\ sleeps = 30 /\ now = 60

(***************************************************************************)
(* C19: get_progress, list_finetunes and delete_finetune return an empty   *)
(* structured result, without error, for a 2xx response with an empty      *)
(* body, and the decoded JSON value for a 2xx response with a non-empty    *)
(* (decodable) body.                                                       *)
(***************************************************************************)
ReturnsBody == op \in {"get_progress", "list_finetunes", "delete_finetune"}

C19_EmptyBodyIsEmptyResult ==
    (ReturnsBody /\ pc = "done" /\ lastReply.net = "response" /\ lastReply.ok) =>
        /\ lastReply.text = "empty" => outcome = Returned(EmptyObj)
        /\ lastReply.text = "json" => outcome = Returned(lastReply.json)

C19_Witness ==
    /\ op = "list_finetunes" /\ pc = "done"
    /\ lastReply = Http(TRUE, "empty", JNull)
    /\ outcome = Returned(EmptyObj)

(***************************************************************************)
(* C20: in the polling loop of generate_image a poll answered with a       *)
(* status outside {Ready, Failed, Error} (Pending, Running, Processing, an *)
(* unrecognized value, or no status field at all) is non-terminal: the     *)
(* call goes on to the next wait and poll, or to Timeout when that poll    *)
(* was the 30th, and never returns or fails because of that poll.          *)
(***************************************************************************)
NonTerminal(reply) ==
    /\ reply.net = "response" /\ reply.ok /\ reply.text # "garbage"
    /\ IsDict(DecodeBody(reply))
    /\ GetOrNone(DecodeBody(reply), "status") \notin {JStr("Ready"), JStr("Failed"), JStr("Error")}

C20_OtherStatusesAreNonTerminal ==
    /\ []((Polled /\ NonTerminal(lastReply)) =>
            \/ pc \in {"sleeping", "polling"} /\ outcome = NoOutcome /\ attempt = polls
            \/ pc = "done" /\ IsTimeout(outcome) /\ polls = 30)
    /\ [][(pc = "polling" /\ polls' = polls + 1 /\ NonTerminal(lastReply')) =>
            (pc' = "sleeping" /\ attempt' = attempt + 1 /\ outcome' = NoOutcome)]_vars

\* a poll with no status field, after one with an unrecognized status
C20_Witness ==
    /\ Polled /\ polls = 2 /\ attempt = 2 /\ pc = "sleeping"
    /\ ~allPending
    /\ IsObjectReply(lastReply) /\ "status" \notin DOMAIN lastReply.json.f

(***************************************************************************)
(* C21: get_finetune_details never raises for a 2xx response because of    *)
(* the shape of its decoded body: an object is returned verbatim, and      *)
(* every other decoded body (string, list, number, boolean, null) yields a *)
(* synthesized object with the fields finetune_comment, status and         *)
(* created_at.                                                             *)
(***************************************************************************)
Decoded2xx(reply) == reply.net = "response" /\ reply.ok /\ reply.text # "garbage"

C21_DetailsToleratesEveryShape ==
    (op = "get_finetune_details" /\ pc = "done" /\ Decoded2xx(lastReply)) =>
        LET body == IF lastReply.text = "empty" THEN EmptyObj ELSE lastReply.json IN
        /\ outcome.kind = "return"
        /\ body.t = "obj" => outcome.value = body
        /\ body.t # "obj" =>
              /\ outcome.value.t = "obj"
              /\ DOMAIN outcome.value.f = {"finetune_comment", "status", "created_at"}
              /\ \A k \in DOMAIN outcome.value.f : outcome.value.f[k].t = "str"

\* a boolean body, answered with the synthesized result
C21_Witness ==
    /\ op = "get_finetune_details" /\ pc = "done"
    /\ lastReply = Ok(JBool("true"))
    /\ outcome.kind = "return"
    /\ outcome.value.f["status"] = JStr("Unknown")
    /\ outcome.value.f["finetune_comment"] = JStr("Error: Invalid response format")

(***************************************************************************)
(* C22: every failure of request_finetuning and of generate_image reaches  *)
(* the caller as a FluxAPIError; no other exception type escapes them,     *)
(* also when a response has an unexpected JSON shape (a list where an      *)
(* object is expected) or when a poll's non-2xx body is not an object.     *)
(***************************************************************************)
Wrapping == op \in {"request_finetuning", "generate_image"}

\* a reply whose handling raises something that is not a FluxAPIError
\* below the operation's own try block
UnexpectedShape(reply) ==
    /\ reply.net = "response" /\ reply.text = "json"
    /\ \/ reply.ok /\ reply.json.t # "obj"
       \/ ~reply.ok /\ ErrorMessage(reply).kind = "raise"

C22_OnlyTypedErrorsEscape ==
    (Wrapping /\ pc = "done") =>
        /\ outcome.kind \in {"return", "raise"}
        /\ outcome.kind = "raise" => outcome.exc.type = "FluxAPIError"
        /\ UnexpectedShape(lastReply) =>
              (outcome.kind = "raise" /\ outcome.exc.type = "FluxAPIError")

\* a poll answered non-2xx with a list as its body
C22_Witness ==
    /\ Polled /\ pc = "done"
    /\ lastReply = Http(FALSE, "json", JList(NoFields))
    /\ outcome.kind = "raise"
    /\ outcome.exc.type = "FluxAPIError"
    /\ outcome.exc.msg = "Failed to generate image"

(***************************************************************************)
(* C23: check_progress_with_state returns the auto-refresh flag true       *)
(* exactly when the fetched status is one of Pending, Running, Processing, *)
(* together with that status as the new last-status; for an empty finetune *)
(* id (no request issued), for any API error and for any other exception   *)
(* it returns the flag false and an empty last-status, so a terminal or    *)
(* unknown status or an error always turns auto-refresh off.               *)
(***************************************************************************)
Fetched(p) == p.requests = 1 /\ IsObjectReply(p.reply) /\ "status" \in DOMAIN p.reply.json.f

InProgress(p) == Fetched(p) /\ StatusIn(p.reply, {"Pending", "Running", "Processing"})

C23_AutoRefreshOnlyWhileInProgress ==
    progress.called =>
        /\ progress.requests = (IF progress.reply = NoResponse THEN 0 ELSE 1)
        /\ progress.auto_refresh <=> InProgress(progress)
        /\ InProgress(progress) => progress.last_status = progress.reply.json.f["status"]
        /\ progress.finetune_id = "" =>
              /\ progress.requests = 0
              /\ ~progress.auto_refresh /\ progress.last_status = JStr("")
        /\ (progress.requests = 1 /\ RequestFails(progress.reply)) =>
              progress.output \in {"API Error", "Error"}
        /\ progress.output # "Status" =>
              (~progress.auto_refresh /\ progress.last_status = JStr(""))
        /\ progress.output = "Status" =>
              (Fetched(progress) /\ progress.last_status = progress.reply.json.f["status"])

\* a Running job keeps auto-refresh on
C23_Witness ==
    /\ progress.called /\ progress.auto_refresh
    /\ progress.last_status = JStr("Running")
    /\ progress.requests = 1
    /\ cached.api_key = JStr("key-a")

====
